---- MODULE Spec2Model ----
(***************************************************************************)
(* Productivity AI Toolkit (src/app.py): a Streamlit script that is re-run *)
(* top to bottom on every user interaction.  One step of this model is one *)
(* script run for one session: the run of the handler whose button was     *)
(* pressed (if any) followed by the rendering of the dashboard tab.  A      *)
(* failing model call raises out of the script, so that run ends at the     *)
(* call and the dashboard tab is not rendered by it.                        *)
(*                                                                         *)
(* Numbers: hours, rates and costs are integers.  The ROI percentage is a  *)
(* Python float in the code; it is modelled as an exact fraction in lowest *)
(* terms <<numerator, denominator>> (binary rounding is not modelled).     *)
(* The "time" field of a history entry is written by save_history and      *)
(* read by nothing in the program; the clock reading is kept opaque.       *)
(***************************************************************************)
EXTENDS Integers, Sequences, FiniteSets, TLC

\* ------------------------------------------------------------- constants
MAX_CALLS == 8

\* Button presses explored per session (beyond it only re-renders happen).
MaxAttempts == 10

Types == {"Idea", "Meeting", "Automation"}

\* The outcome of client.chat.completions.create: a reply text, or a raise.
ServiceError == "ServiceError"
Replies == {"reply"}
Outcomes == Replies \cup {ServiceError}

\* Form inputs explored by the session: the widgets' default values, and an
\* automation cost of zero.
TaskTables == {<<4, 3>>}
HourlyRates == {25}
AutomationCosts == {0, 2000}
IdeaNames == {"idea"}
Topics == {"topic"}

\* Form inputs explored for the ROI arithmetic alone.
MaxRows == 2
HoursPerWeek == {0, 3, 4, 11}
RateChoices == {5, 25, 200}
CostChoices == {0, 2000, 50000}

\* datetime.now()
Timestamp == "now"

Keys == {"type", "name", "result", "time", "hours", "savings"}

VARIABLES
    ai_calls,   \* st.session_state.ai_calls
    history,    \* st.session_state.history
    attempts,   \* number of can_use_ai() invocations so far
    asked,      \* number of ask_ai() invocations so far
    failures,   \* number of ask_ai() invocations that raised
    appended,   \* per type, number of save_history() calls so far
    button,     \* the button handled by the last script run, or "none"
    quota,      \* can_use_ai() result in the last run: "none", "granted", "denied"
    raised,     \* the last run ended in an unhandled exception of ask_ai
    roi,        \* the ROI form and the metrics the last run showed for it, if any
    dash        \* what the dashboard tab showed in the last run

vars == <<ai_calls, history, attempts, asked, failures, appended,
          button, quota, raised, roi, dash>>

\* ------------------------------------------------------------- helpers
Abs(x) == IF x < 0 THEN -x ELSE x

RECURSIVE GCD(_, _)
GCD(a, b) == IF b = 0 THEN a ELSE GCD(b, a % b)

\* The value of n / d (d > 0) as a fraction in lowest terms.
Ratio(n, d) ==
    LET g == GCD(Abs(n), d)
    IN  <<n \div g, d \div g>>

RECURSIVE SumSeq(_)
SumSeq(s) == IF s = <<>> THEN 0 ELSE Head(s) + SumSeq(Tail(s))

\* df["Hours per Week"] * 4, row by row.
MonthlyHours(table) == [i \in DOMAIN table |-> table[i] * 4]

NoROI == [shown |-> FALSE]

\* Variant: a year counted as 52 months.
ROI_Annual52(table, hourly_rate, automation_cost) ==
    LET total_hours    == SumSeq(MonthlyHours(table))
        annual_hours   == total_hours * 52
        annual_savings == annual_hours * hourly_rate
    IN  [shown |-> TRUE,
         total_hours |-> total_hours,
         annual_hours |-> annual_hours,
         annual_savings |-> annual_savings,
         roi |-> IF automation_cost # 0
                 THEN Ratio((annual_savings - automation_cost) * 100, automation_cost)
                 ELSE <<0, 1>>,
         opportunity |-> total_hours > 40]

\* The arithmetic of the "Analyze Automation Potential" handler.
ROI(table, hourly_rate, automation_cost) ==
    LET total_hours    == SumSeq(MonthlyHours(table))
        annual_hours   == total_hours * 12
        annual_savings == annual_hours * hourly_rate
    IN  [shown |-> TRUE,
         total_hours |-> total_hours,
         annual_hours |-> annual_hours,
         annual_savings |-> annual_savings,
         roi |-> IF automation_cost # 0
                 THEN Ratio((annual_savings - automation_cost) * 100, automation_cost)
                 ELSE <<0, 1>>,
         opportunity |-> total_hours > 40]

\* ------------------------------------------------------------- rate limiter
\* Variants: the comparison off by one; a denial that still counts; a
\* denial that resets the counter.
can_use_ai_OffByOne(calls) ==
    IF calls > MAX_CALLS
    THEN [ok |-> FALSE, calls |-> calls]
    ELSE [ok |-> TRUE, calls |-> calls + 1]

can_use_ai_CountsDenied(calls) ==
    IF calls >= MAX_CALLS
    THEN [ok |-> FALSE, calls |-> calls + 1]
    ELSE [ok |-> TRUE, calls |-> calls + 1]

can_use_ai_ResetsOnDenial(calls) ==
    IF calls >= MAX_CALLS
    THEN [ok |-> FALSE, calls |-> 0]
    ELSE [ok |-> TRUE, calls |-> calls + 1]

\* can_use_ai(): the value returned and the value left in ai_calls.
can_use_ai(calls) ==
    IF calls >= MAX_CALLS
    THEN [ok |-> FALSE, calls |-> calls]
    ELSE [ok |-> TRUE, calls |-> calls + 1]

\* ------------------------------------------------------------- history
\* dict.update: the keys of e override those of d.
Update(d, e) ==
    [k \in (DOMAIN d) \cup (DOMAIN e) |-> IF k \in DOMAIN e THEN e[k] ELSE d[k]]

default_entry ==
    [type |-> "", name |-> "", result |-> "", time |-> Timestamp,
     hours |-> 0, savings |-> 0]

\* Variants: no defaults merged in; the entry put at the front.
save_history_NoDefaults(hist, entry) == Append(hist, entry)

save_history_Prepends(hist, entry) == <<Update(default_entry, entry)>> \o hist

save_history(hist, entry) == Append(hist, Update(default_entry, entry))

\* ------------------------------------------------------------- handlers
\* Variants: an entry saved although the model call raised; the quota given
\* back when the model call raised.
Feature_SavesOnFailure(calls, hist, entry, outcome) ==
    LET q == can_use_ai(calls)
    IN  IF ~q.ok
        THEN [calls |-> q.calls, hist |-> hist, quota |-> "denied",
              asked |-> 0, raised |-> FALSE, saved |-> FALSE]
        ELSE IF outcome = ServiceError
        THEN [calls |-> q.calls,
              hist |-> save_history(hist, Update(entry, [result |-> ""])),
              quota |-> "granted", asked |-> 1, raised |-> TRUE, saved |-> TRUE]
        ELSE [calls |-> q.calls,
              hist |-> save_history(hist, Update(entry, [result |-> outcome])),
              quota |-> "granted", asked |-> 1, raised |-> FALSE, saved |-> TRUE]

Feature_RefundsOnFailure(calls, hist, entry, outcome) ==
    LET q == can_use_ai(calls)
    IN  IF ~q.ok
        THEN [calls |-> q.calls, hist |-> hist, quota |-> "denied",
              asked |-> 0, raised |-> FALSE, saved |-> FALSE]
        ELSE IF outcome = ServiceError
        THEN [calls |-> calls, hist |-> hist, quota |-> "granted",
              asked |-> 1, raised |-> TRUE, saved |-> FALSE]
        ELSE [calls |-> q.calls,
              hist |-> save_history(hist, Update(entry, [result |-> outcome])),
              quota |-> "granted", asked |-> 1, raised |-> FALSE, saved |-> TRUE]

\* "if can_use_ai(): result = ask_ai(...); save_history({..., result})":
\* the part shared by the three handlers.  outcome is what the remote call
\* does; entry holds the keys the handler passes besides "result".
Feature(calls, hist, entry, outcome) ==
    LET q == can_use_ai(calls)
    IN  IF ~q.ok
        THEN [calls |-> q.calls, hist |-> hist, quota |-> "denied",
              asked |-> 0, raised |-> FALSE, saved |-> FALSE]
        ELSE IF outcome = ServiceError
        THEN [calls |-> q.calls, hist |-> hist, quota |-> "granted",
              asked |-> 1, raised |-> TRUE, saved |-> FALSE]
        ELSE [calls |-> q.calls,
              hist |-> save_history(hist, Update(entry, [result |-> outcome])),
              quota |-> "granted", asked |-> 1, raised |-> FALSE, saved |-> TRUE]

\* ------------------------------------------------------------- dashboard
OfType(hist, t) == SelectSeq(hist, LAMBDA e : e["type"] = t)

Column(hist, k) == [i \in DOMAIN hist |-> hist[i][k]]

\* hist_df["type"].value_counts(): one count per value that occurs.
value_counts(hist) ==
    [t \in {hist[i]["type"] : i \in DOMAIN hist} |-> Len(OfType(hist, t))]

NotRendered == [shown |-> "none"]

Metrics(hist) ==
    [shown |-> "metrics",
     total |-> Len(hist),
     ideas |-> Len(OfType(hist, "Idea")),
     meetings |-> Len(OfType(hist, "Meeting")),
     auto_hours |-> SumSeq(Column(OfType(hist, "Automation"), "hours")),
     auto_savings |-> SumSeq(Column(OfType(hist, "Automation"), "savings")),
     chart |-> value_counts(hist)]

\* Variants: figures computed for an empty history too; the Idea metric
\* counting every entry that is not a Meeting.
Dashboard_NoEmptyGuard(hist) == Metrics(hist)

Dashboard_IdeasCountAll(hist) ==
    IF hist # <<>>
    THEN [Metrics(hist) EXCEPT !.ideas = Len(hist) - Len(OfType(hist, "Meeting"))]
    ELSE [shown |-> "info"]

\* The dashboard tab: metrics when the history is non-empty, a notice otherwise.
Dashboard(hist) ==
    IF hist # <<>> THEN Metrics(hist) ELSE [shown |-> "info"]

\* ------------------------------------------------------------- state machine
Init ==
    /\ ai_calls = 0
    /\ history = <<>>
    /\ attempts = 0
    /\ asked = 0
    /\ failures = 0
    /\ appended = [t \in Types |-> 0]
    /\ button = "none"
    /\ quota = "none"
    /\ raised = FALSE
    /\ roi = NoROI
    /\ dash = NotRendered

\* A button can be pressed once a run has put the page on the screen.
PageShown == dash.shown # "none" \/ raised

\* The effect on the state of a run that handled a button.
Handled(b, run, shownROI) ==
    /\ ai_calls' = run.calls
    /\ history' = run.hist
    /\ attempts' = attempts + 1
    /\ asked' = asked + run.asked
    /\ failures' = failures + (IF run.raised THEN 1 ELSE 0)
    /\ appended' = IF run.saved THEN [appended EXCEPT ![b] = @ + 1] ELSE appended
    /\ button' = b
    /\ quota' = run.quota
    /\ raised' = run.raised
    /\ roi' = shownROI
    /\ dash' = IF run.raised THEN NotRendered ELSE Dashboard(run.hist)

\* A run with no button pressed (page load, or a widget was edited).
Rerun ==
    /\ button' = "none"
    /\ quota' = "none"
    /\ raised' = FALSE
    /\ roi' = NoROI
    /\ dash' = Dashboard(history)
    /\ UNCHANGED <<ai_calls, history, attempts, asked, failures, appended>>

\* The ROI form as the widgets hold it.
Form(table, hourly_rate, automation_cost) ==
    [table |-> table, hourly_rate |-> hourly_rate, automation_cost |-> automation_cost]

AnalyzeAutomation ==
    /\ PageShown
    /\ attempts < MaxAttempts
    /\ \E table \in TaskTables, hourly_rate \in HourlyRates,
          automation_cost \in AutomationCosts, outcome \in Outcomes :
          LET r == ROI(table, hourly_rate, automation_cost)
              entry == [type |-> "Automation", name |-> "Task Analysis",
                        hours |-> r.total_hours, savings |-> r.annual_savings]
          IN  Handled("Automation",
                      Feature(ai_calls, history, entry, outcome),
                      r @@ Form(table, hourly_rate, automation_cost))

EvaluateIdea ==
    /\ PageShown
    /\ attempts < MaxAttempts
    /\ \E idea_name \in IdeaNames, outcome \in Outcomes :
          Handled("Idea",
                  Feature(ai_calls, history, [type |-> "Idea", name |-> idea_name],
                          outcome),
                  NoROI)

EvaluateMeeting ==
    /\ PageShown
    /\ attempts < MaxAttempts
    /\ \E topic \in Topics, outcome \in Outcomes :
          Handled("Meeting",
                  Feature(ai_calls, history, [type |-> "Meeting", name |-> topic],
                          outcome),
                  NoROI)

Next == Rerun \/ AnalyzeAutomation \/ EvaluateIdea \/ EvaluateMeeting

Spec == Init /\ [][Next]_vars

\* ------------------------------------------------------------- ROI alone
\* The ROI arithmetic applied to a form drawn from wider input ranges.
EditedTables == UNION {[1..n -> HoursPerWeek] : n \in 0..MaxRows}

InitROI ==
    /\ ai_calls = 0
    /\ history = <<>>
    /\ attempts = 0
    /\ asked = 0
    /\ failures = 0
    /\ appended = [t \in Types |-> 0]
    /\ button = "none"
    /\ quota = "none"
    /\ raised = FALSE
    /\ dash = Dashboard(<<>>)
    /\ \E table \in EditedTables, hourly_rate \in RateChoices,
          automation_cost \in CostChoices :
          roi = NoROI @@ Form(table, hourly_rate, automation_cost)

CalculateROI ==
    /\ ~roi.shown
    /\ roi' = ROI(roi.table, roi.hourly_rate, roi.automation_cost)
                  @@ Form(roi.table, roi.hourly_rate, roi.automation_cost)
    /\ UNCHANGED <<ai_calls, history, attempts, asked, failures, appended,
                   button, quota, raised, dash>>

NextROI == CalculateROI

SpecROI == InitROI /\ [][NextROI]_vars

\* ------------------------------------------------------------- properties
Min(a, b) == IF a <= b THEN a ELSE b

IsPrefix(s, t) == Len(s) <= Len(t) /\ SubSeq(t, 1, Len(s)) = s

\* A step that ran a feature handler (a button was pressed).
Attempted == attempts' = attempts + 1

\* The chart's bar for type t (no bar when the type does not occur).
ChartCount(t) == IF t \in DOMAIN dash.chart THEN dash.chart[t] ELSE 0

\* C1: ai_calls never exceeds MAX_CALLS, at most MAX_CALLS model calls are
\* ever issued, and no step taken with ai_calls at MAX_CALLS issues one.
C1_QuotaCeiling ==
    /\ [](ai_calls <= MAX_CALLS /\ asked <= MAX_CALLS)
    /\ [][ai_calls = MAX_CALLS => asked' = asked]_vars

C1_Witness ==
    /\ ai_calls = MAX_CALLS
    /\ asked = MAX_CALLS
    /\ quota = "denied"
    /\ {"Automation", "Idea", "Meeting"} = {history[i]["type"] : i \in DOMAIN history}

\* C2: after N attempts ai_calls = min(N, MAX_CALLS); an attempt is granted
\* exactly when fewer than MAX_CALLS attempts came before it, and an attempt
\* made after MAX_CALLS or more leaves ai_calls as it was.
C2_CountIsMinOfAttempts ==
    /\ [](ai_calls = Min(attempts, MAX_CALLS))
    /\ [][Attempted =>
            /\ (quota' = "granted") <=> (attempts < MAX_CALLS)
            /\ (quota' = "denied") <=> (attempts >= MAX_CALLS)
            /\ attempts >= MAX_CALLS => ai_calls' = ai_calls]_vars

C2_Witness ==
    /\ attempts = MAX_CALLS + 1
    /\ ai_calls = MAX_CALLS
    /\ quota = "denied"

\* C3: a denied attempt leaves ai_calls and history unchanged; ai_calls never
\* decreases; once an attempt has been denied every later attempt is denied.
C3_DeniedHasNoEffect ==
    [][/\ (Attempted /\ quota' = "denied") =>
              (ai_calls' = ai_calls /\ history' = history)
       /\ ai_calls' >= ai_calls
       /\ (Attempted /\ (quota = "denied" \/ attempts > ai_calls)) =>
              quota' = "denied"]_vars

C3_Witness ==
    /\ attempts >= MAX_CALLS + 2
    /\ quota = "denied"
    /\ history # <<>>
    /\ button = "Idea"

\* C4: history grows only in a run whose quota check was granted and whose
\* model call returned; a run whose model call raised made exactly one call,
\* appended nothing and ended before the dashboard; a denied run appended
\* nothing and made no call.
C4_SavedOnlyAfterSuccess ==
    [][/\ history' # history =>
              (quota' = "granted" /\ ~raised' /\ asked' = asked + 1)
       /\ raised' =>
              (history' = history /\ asked' = asked + 1 /\ dash'.shown = "none")
       /\ quota' = "denied" =>
              (history' = history /\ asked' = asked)]_vars

C4_Witness ==
    /\ raised
    /\ button = "Meeting"
    /\ history # <<>>
    /\ failures = 1

\* C5: every step leaves the old history as a prefix of the new one and adds
\* at most one entry; a run whose model call returned adds exactly one entry,
\* of the handler's type, at the end; a run that only renders the dashboard
\* changes neither history nor ai_calls.
C5_AppendOnly ==
    [][/\ IsPrefix(history, history')
       /\ Len(history') <= Len(history) + 1
       /\ (Attempted /\ quota' = "granted" /\ ~raised') =>
              /\ Len(history') = Len(history) + 1
              /\ history'[Len(history')]["type"] = button'
       /\ button' = "none" =>
              /\ UNCHANGED <<history, ai_calls>>
              /\ dash' = Dashboard(history)]_vars

C5_Witness ==
    /\ Len(history) >= 3
    /\ history[1]["type"] # history[2]["type"]
    /\ button = "none"
    /\ dash.shown = "metrics"

\* C6: whenever the dashboard shows its figures, the count shown for each
\* type is the number of entries of that type that were appended, and the
\* total is the history length and the sum of the three per-type counts.
C6_CountsMatchAppends ==
    dash.shown = "metrics" =>
        /\ dash.total = Len(history)
        /\ dash.ideas = appended["Idea"]
        /\ dash.meetings = appended["Meeting"]
        /\ \A t \in Types : ChartCount(t) = appended[t]
        /\ DOMAIN dash.chart \subseteq Types
        /\ dash.total = ChartCount("Idea") + ChartCount("Meeting")
                            + ChartCount("Automation")

C6_Witness ==
    /\ dash.shown = "metrics"
    /\ appended["Idea"] = 2
    /\ appended["Meeting"] = 1
    /\ appended["Automation"] = 3
    /\ history[1]["type"] = "Automation"
    /\ history[2]["type"] = "Idea"

\* C7 as stated: a dashboard rendered on an empty history shows zero counts
\* and zero sums.
C7_EmptyGivesZeros ==
    (history = <<>> /\ dash.shown # "none") =>
        /\ dash.shown = "metrics"
        /\ dash.total = 0
        /\ dash.ideas = 0
        /\ dash.meetings = 0
        /\ dash.auto_hours = 0
        /\ dash.auto_savings = 0

\* C7 (amended): a dashboard rendered on an empty history shows the notice
\* and no figures; figures are shown exactly for a non-empty history, so the
\* total shown is at least 1; the Automation sums shown are zero when no
\* Automation entry was appended.
C7_EmptyShowsNotice ==
    /\ dash.shown # "none" => ((history = <<>>) <=> (dash.shown = "info"))
    /\ dash.shown = "metrics" =>
          /\ dash.total >= 1
          /\ appended["Automation"] = 0 =>
                (dash.auto_hours = 0 /\ dash.auto_savings = 0)

C7_Witness ==
    /\ history = <<>>
    /\ dash.shown = "info"
    /\ failures > 0

\* C8: every history entry has exactly the six keys, a type among the three,
\* the handler's result and the clock reading; Idea and Meeting entries have
\* hours 0 and savings 0; the Automation-only sums the dashboard shows equal
\* the sums over the whole history.
C8_EntriesComplete ==
    /\ \A i \in DOMAIN history :
          /\ DOMAIN history[i] = Keys
          /\ history[i]["type"] \in Types
          /\ history[i]["result"] \in Replies
          /\ history[i]["time"] = Timestamp
          /\ history[i]["type"] \in {"Idea", "Meeting"} =>
                (history[i]["hours"] = 0 /\ history[i]["savings"] = 0)
    /\ dash.shown = "metrics" =>
          /\ dash.auto_hours = SumSeq(Column(history, "hours"))
          /\ dash.auto_savings = SumSeq(Column(history, "savings"))

C8_Witness ==
    /\ dash.shown = "metrics"
    /\ dash.auto_hours > 0
    /\ \E i, j \in DOMAIN history :
          history[i]["type"] = "Idea" /\ history[j]["type"] = "Meeting"

\* C9: the figures shown are the stated functions of the form: monthly hours
\* 4 times the sum of the rows, annual hours 12 times that, annual savings
\* that times the hourly rate, and ROI (savings - cost) / cost * 100 for a
\* positive cost and 0 for a cost of 0; rows 4 and 3, rate 25, cost 2000 give
\* 28, 336, 8400 and 320.
C9_ROIFormula ==
    roi.shown =>
        /\ roi.total_hours = 4 * SumSeq(roi.table)
        /\ roi.annual_hours = roi.total_hours * 12
        /\ roi.annual_savings = roi.annual_hours * roi.hourly_rate
        /\ roi.automation_cost > 0 =>
              /\ roi.roi[2] > 0
              /\ roi.roi[1] * roi.automation_cost
                     = (roi.annual_savings - roi.automation_cost) * 100 * roi.roi[2]
        /\ roi.automation_cost = 0 => roi.roi = <<0, 1>>
        /\ (roi.table = <<4, 3>> /\ roi.hourly_rate = 25
                /\ roi.automation_cost = 2000) =>
              /\ roi.total_hours = 28
              /\ roi.annual_hours = 336
              /\ roi.annual_savings = 8400
              /\ roi.roi = <<320, 1>>

C9_Witness ==
    /\ roi.shown
    /\ roi.table = <<4, 3>>
    /\ roi.hourly_rate = 25
    /\ roi.automation_cost = 2000
    /\ roi.roi = <<320, 1>>

\* C10: len(history) <= ai_calls <= MAX_CALLS; a run whose model call raised
\* still consumed one unit of quota, leaving len(history) < ai_calls; and
\* len(history) = ai_calls exactly when no model call has raised.
C10_HistoryBoundedByQuota ==
    /\ [](/\ Len(history) <= ai_calls
          /\ ai_calls <= MAX_CALLS
          /\ raised => Len(history) < ai_calls
          /\ (Len(history) = ai_calls) <=> (failures = 0))
    /\ [][raised' => ai_calls' = ai_calls + 1]_vars

C10_Witness ==
    /\ raised
    /\ failures >= 2
    /\ Len(history) >= 1
    /\ ai_calls = MAX_CALLS

====
